---- MODULE Spec2Model ----
(***************************************************************************)
(* A model of captain's connection manager (src/captain/connection.py):    *)
(* the Connection object, its lru-cached inspection, the per-node          *)
(* inventory pass with its exit-time GC, the fleet fan-out, get_node and   *)
(* get_nodes, start_instance (alone and as overlapping calls),             *)
(* stop_instance, get_logs and the decoder of the framed log stream, run   *)
(* against a model of the Docker daemons they call.                        *)
(*                                                                         *)
(* Strings the code splits or compares by prefix are sequences of tokens:  *)
(* a Status "Up 40 minutes" is <<"Up", "40m">>, an Env entry "A=b=c" is    *)
(* <<"A", "=", "b", "=", "c">>, a Name "/paye_216" is                      *)
(* <<"/", "paye", "_", "216">>, a HostPort "92" is <<"9", "2">>.           *)
(***************************************************************************)
EXTENDS Integers, Sequences, FiniteSets, TLC

VARIABLES
    daemon,      \* node -> the containers its Docker daemon holds, in listing order
    now,         \* the clock datetime.now() reads
    cache,       \* the lru_cache of _get_lru_instance_details: key -> record
    nextId,      \* how many containers start_instance has had created so far
    calls,       \* the daemon calls issued by the last operation, in order
    result,      \* what the last operation returned or raised
    lastPass,    \* node -> what the latest inventory pass on it inspected
    left,        \* how many operations the run may still start
    reader,      \* the generator the last get_logs(follow=True) returned
    starting     \* caller -> how far its concurrent start_instance call has got

vars == <<daemon, now, cache, nextId, calls, result, lastPass, left, reader, starting>>

----------------------------------------------------------------------------
(* Bounds of the model and configuration values *)

MaxTime == 3
MaxCreated == 1
\* operations in a run of Spec, SpecNode or SpecLogs, inventories in a run of
\* SpecInventory
MaxOps == 1
MaxPasses == 2

\* self.config
slots_per_node == 3
default_slots_per_instance == 2
docker_gc_grace_period == 1

lru_cache_size == 1024
AppPort == 8080

Nodes == {"n1", "n2"}

\* '0001-01-01T00:00:00Z': the earliest time there is
ZeroTime == 0
\* the clock when the Connection is constructed
StartTime == ZeroTime + 1

ReservedKeys == {"HOME", "PATH", "SLUG_URL", "PORT"}

----------------------------------------------------------------------------
(* Sequences *)

RECURSIVE SeqSum(_)
SeqSum(s) == IF s = <<>> THEN 0 ELSE Head(s) + SeqSum(Tail(s))

RECURSIVE IndexOf(_, _, _)
\* the first position >= i of s that holds x, 0 when there is none
IndexOf(s, x, i) ==
    IF i > Len(s) THEN 0
    ELSE IF s[i] = x THEN i
    ELSE IndexOf(s, x, i + 1)

RECURSIVE Without(_, _)
\* s with the elements that satisfy Id = id left out
Without(s, id) ==
    IF s = <<>> THEN <<>>
    ELSE IF Head(s).Id = id THEN Without(Tail(s), id)
    ELSE <<Head(s)>> \o Without(Tail(s), id)

Range(s) == {s[i] : i \in 1..Len(s)}

----------------------------------------------------------------------------
(* The Docker daemon of one node, as the client calls of docker-py see it.   *)
(* A container is [Id, Name, Env, CpuShares, Exposed, Status, HostPort,      *)
(* FinishedAt]; Status <<>> is the empty Status of a container that was      *)
(* created and never started.                                                *)

StatusCreated == <<>>
StatusUp == <<"Up", "1s">>
StatusKilled == <<"Exited", "(137)">>
StatusStopped == <<"Exited", "(0)">>

NoPort == <<>>
PortA == <<"9", "1">>
PortB == <<"9", "2">>

Running(c) == Len(c.Status) >= 1 /\ c.Status[1] = "Up"

\* containers(all=True): one summary per container, in the daemon's order
DContainers(dn) ==
    [i \in 1..Len(dn) |->
        [Id |-> dn[i].Id,
         Status |-> dn[i].Status,
         Ports |-> IF Running(dn[i])
                   THEN [j \in 1..Len(dn[i].Exposed) |-> [PrivatePort |-> dn[i].Exposed[j]]]
                   ELSE <<>>]]

DIndex(dn, id) == CHOOSE i \in 0..Len(dn) :
    IF \E j \in 1..Len(dn) : dn[j].Id = id
    THEN i # 0 /\ dn[i].Id = id
    ELSE i = 0

\* inspect_container(id): the full record
DInspect(dn, id) ==
    LET c == dn[DIndex(dn, id)]
    IN [Id |-> c.Id,
        Name |-> c.Name,
        Config |-> [Env |-> c.Env, CpuShares |-> c.CpuShares],
        NetworkSettings |-> [HostPort |-> c.HostPort],
        State |-> [FinishedAt |-> c.FinishedAt]]

DUpdate(dn, id, f(_)) ==
    [i \in 1..Len(dn) |-> IF dn[i].Id = id THEN f(dn[i]) ELSE dn[i]]

\* start(id) / start(id, port_bindings={8080: None}): the daemon picks a host
\* port only when a binding is asked for
DStart(dn, id, bind) ==
    LET f(c) == [c EXCEPT !.Status = StatusUp,
                          !.HostPort = IF ~bind THEN NoPort
                                       ELSE IF c.LastPort = PortA THEN PortB ELSE PortA,
                          !.LastPort = IF ~bind THEN c.LastPort
                                       ELSE IF c.LastPort = PortA THEN PortB ELSE PortA]
    IN DUpdate(dn, id, f)

DExit(dn, id, status, t) ==
    LET f(c) == [c EXCEPT !.Status = status, !.HostPort = NoPort, !.FinishedAt = t]
    IN DUpdate(dn, id, f)

\* kill(id) and stop(id): the container exits now
DKill(dn, id, t) == DExit(dn, id, StatusKilled, t)
DStop(dn, id, t) == DExit(dn, id, StatusStopped, t)

\* remove_container(id)
DRemove(dn, id) == Without(dn, id)

\* create_container(...): a new container, not started
DCreate(dn, id, name, env, cpu_shares) ==
    Append(dn, [Id |-> id, Name |-> name, Env |-> env, CpuShares |-> cpu_shares,
                Exposed |-> <<AppPort>>, Status |-> StatusCreated,
                HostPort |-> NoPort, LastPort |-> NoPort, FinishedAt |-> ZeroTime])

----------------------------------------------------------------------------
(* Failures of daemon calls: an operation runs under a fault map, node ->    *)
(* the client call that raises on that node while the operation runs.        *)

NoFault == [n \in Nodes |-> "none"]

Call(n, op, id, arg) == [node |-> n, op |-> op, id |-> id, arg |-> arg]

----------------------------------------------------------------------------
(* Connection._get_lru_instance_details under                                *)
(* @lru_cache(maxsize=lru_cache_size).  The cache is the map key -> record;  *)
(* the model holds fewer than lru_cache_size keys (CacheBelowCapacity), so   *)
(* nothing is ever evicted and the recency order is left out.                *)

CacheKey(node, container_id, container_status) ==
    <<node, container_id, container_status>>

\* a cache that forgets: what a miss fetched is not stored
CacheInsertNothing(ch, key, val) == ch

CacheInsert(ch, key, val) ==
    [k \in DOMAIN ch \cup {key} |-> IF k = key THEN val ELSE ch[k]]

\* a hit returns the stored record and issues no call; a miss calls
\* inspect_container and stores what it returns; an exception stores nothing
GetLruInstanceDetails(node, dn, ch, cl, flt, container_id, container_status) ==
    LET key == CacheKey(node, container_id, container_status)
        cl2 == Append(cl, Call(node, "inspect_container", container_id, "-"))
    IN IF key \in DOMAIN ch
       THEN [cache |-> ch, calls |-> cl, raised |-> FALSE, val |-> ch[key]]
       ELSE IF flt[node] = "inspect_container"
       THEN [cache |-> ch, calls |-> cl2, raised |-> TRUE,
             val |-> DInspect(dn, container_id)]
       ELSE [cache |-> CacheInsert(ch, key, DInspect(dn, container_id)),
             calls |-> cl2, raised |-> FALSE,
             val |-> DInspect(dn, container_id)]

----------------------------------------------------------------------------
(* Connection.__get_instance: the projection of an inspection record *)

None == <<"None">>

\* s up to, not including, its first "_" : s.split("_")[0]
RECURSIVE SplitFirst(_, _)
SplitFirst(s, sep) ==
    IF s = <<>> \/ Head(s) = sep THEN <<>>
    ELSE <<Head(s)>> \o SplitFirst(Tail(s), sep)

AppOfName(name) == SplitFirst(Tail(name), "_")

\* env_item.split("=", 1) yields two parts only when the item holds a "="
EnvItemOk(env_item) == IndexOf(env_item, "=", 1) # 0
EnvItemKey(env_item) == SubSeq(env_item, 1, IndexOf(env_item, "=", 1) - 1)
EnvItemValue(env_item) ==
    SubSeq(env_item, IndexOf(env_item, "=", 1) + 1, Len(env_item))

\* a reserved list that leaves PORT out
IsReservedNoPort(env_item_key) ==
    Len(env_item_key) = 1 /\ env_item_key[1] \in ReservedKeys \ {"PORT"}

IsReserved(env_item_key) ==
    Len(env_item_key) = 1 /\ env_item_key[1] \in ReservedKeys

MapPut(m, k, v) == [x \in DOMAIN m \cup {k} |-> IF x = k THEN v ELSE m[x]]
EmptyMap == [x \in {} |-> <<>>]

RECURSIVE EnvLoop(_, _)
\* the for loop over container["Config"]["Env"], from [environment, slug_uri]
EnvLoop(env, acc) ==
    IF env = <<>> THEN acc
    ELSE LET item == Head(env)
             k == EnvItemKey(item)
             v == EnvItemValue(item)
             e2 == IF ~IsReserved(k) THEN MapPut(acc.environment, k, v)
                   ELSE acc.environment
             s2 == IF k = <<"SLUG_URL">> THEN v ELSE acc.slug_uri
         IN CHOOSE end \in {EnvLoop(rest, acc1) :
                               rest \in {Tail(env)},
                               acc1 \in {[environment |-> e2, slug_uri |-> s2]}} : TRUE

Digits == <<"0", "1", "2", "3", "4", "5", "6", "7", "8", "9">>
IsDigit(ch) == IndexOf(Digits, ch, 1) # 0
DigitVal(ch) == IndexOf(Digits, ch, 1) - 1

\* int(s) succeeds on a non-empty string of digits
IntOk(s) == s # <<>> /\ \A i \in 1..Len(s) : IsDigit(s[i])
RECURSIVE ParseInt(_)
ParseInt(s) ==
    IF s = <<>> THEN 0
    ELSE 10 * ParseInt(SubSeq(s, 1, Len(s) - 1)) + DigitVal(s[Len(s)])

\* the projection raises on an Env entry without "=" and on a host port that
\* is missing or not a number
GetInstanceOk(container) ==
    /\ \A i \in 1..Len(container.Config.Env) : EnvItemOk(container.Config.Env[i])
    /\ IntOk(container.NetworkSettings.HostPort)

GetInstance(node, container) ==
    LET e == EnvLoop(container.Config.Env,
                     [environment |-> EmptyMap, slug_uri |-> None])
    IN [id |-> container.Id,
        app |-> AppOfName(container.Name),
        slug_uri |-> e.slug_uri,
        node |-> node,
        port |-> ParseInt(container.NetworkSettings.HostPort),
        environment |-> e.environment,
        slots |-> container.Config.CpuShares]

----------------------------------------------------------------------------
(* Connection.get_node_instances: one inventory pass over a node.  The pass  *)
(* state is [dn, cache, calls, out, raised, got]: the node's daemon, the     *)
(* cache, the calls issued so far, node_instances, whether an exception has  *)
(* left the method, and the <<Id, status>> pairs whose details were obtained. *)

\* full_container_status.split()[0] if full_container_status else full_container_status
ContainerStatus(full_container_status) ==
    IF full_container_status = <<>> THEN "" ELSE full_container_status[1]

\* container["Status"].startswith("Up ")
StartsWithUp(status) == Len(status) >= 2 /\ status[1] = "Up"

\* a filter that looks at the first port alone
HasFirstCaptainPort(container) ==
    Len(container.Ports) >= 1 /\ container.Ports[1].PrivatePort = AppPort

\* len(container["Ports"]) == 1 and container["Ports"][0]["PrivatePort"] == 8080
HasCaptainPort(container) ==
    Len(container.Ports) = 1 /\ container.Ports[1].PrivatePort = AppPort

\* (datetime.datetime.now() - exit_time).total_seconds() > docker_gc_grace_period
PastGrace(t, exit_time) == t - exit_time > docker_gc_grace_period

Raise(st) == [st EXCEPT !.raised = TRUE]

\* a repair that starts the container and leaves it running
RepairStartOnly(node, container, flt, t, st) ==
    LET cl1 == Append(st.calls, Call(node, "start", container.Id, "-"))
    IN IF flt[node] = "start" THEN [st EXCEPT !.calls = cl1, !.raised = TRUE]
       ELSE [st EXCEPT !.calls = cl1, !.dn = DStart(st.dn, container.Id, FALSE)]

\* lines 59-63: start and kill the container to reset its exit time
RepairStep(node, container, flt, t, st) ==
    LET cl1 == Append(st.calls, Call(node, "start", container.Id, "-"))
        cl2 == Append(cl1, Call(node, "kill", container.Id, "-"))
        dn1 == DStart(st.dn, container.Id, FALSE)
    IN IF flt[node] = "start" THEN Raise([st EXCEPT !.calls = cl1])
       ELSE IF flt[node] = "kill" THEN Raise([st EXCEPT !.calls = cl2, !.dn = dn1])
       ELSE [st EXCEPT !.calls = cl2, !.dn = DKill(dn1, container.Id, t)]

\* a pass that leaves an old container alone
RecycleNever(node, container, flt, st) == st

\* lines 64-67: remove the container
RecycleStep(node, container, flt, st) ==
    LET cl1 == Append(st.calls, Call(node, "remove_container", container.Id, "-"))
    IN IF flt[node] = "remove_container" THEN Raise([st EXCEPT !.calls = cl1])
       ELSE [st EXCEPT !.calls = cl1, !.dn = DRemove(st.dn, container.Id)]

\* lines 53-67: a container that is not Up
ExitedWith(node, container, flt, t, st, r) ==
    LET st1 == [st EXCEPT !.cache = r.cache, !.calls = r.calls]
        st2 == [st1 EXCEPT !.got = @ \cup
                   {<<container.Id, ContainerStatus(container.Status)>>}]
        formatted_exit_time == r.val.State.FinishedAt
    IN IF r.raised THEN Raise(st1)
       ELSE IF formatted_exit_time = ZeroTime
       THEN RepairStep(node, container, flt, t, st2)
       ELSE IF PastGrace(t, formatted_exit_time)
       THEN RecycleStep(node, container, flt, st2)
       ELSE st2

ExitedStep(node, container, flt, t, st) ==
    CHOOSE end \in
        {ExitedWith(node, container, flt, t, st, node_container) :
            node_container \in
                {GetLruInstanceDetails(node, st.dn, st.cache, st.calls, flt,
                                       container.Id, ContainerStatus(container.Status))}} :
        TRUE

\* lines 68-70: an Up container with the one port 8080
UpWith(node, container, st, r) ==
    LET st1 == [st EXCEPT !.cache = r.cache, !.calls = r.calls]
        st2 == [st1 EXCEPT !.got = @ \cup
                   {<<container.Id, ContainerStatus(container.Status)>>}]
    IN IF r.raised THEN Raise(st1)
       ELSE IF ~GetInstanceOk(r.val) THEN Raise(st2)
       ELSE [st2 EXCEPT !.out = Append(@, GetInstance(node, r.val))]

UpStep(node, container, flt, st) ==
    CHOOSE end \in
        {UpWith(node, container, st, node_container) :
            node_container \in
                {GetLruInstanceDetails(node, st.dn, st.cache, st.calls, flt,
                                       container.Id, ContainerStatus(container.Status))}} :
        TRUE

\* the body of the for loop
ContainerStep(node, container, flt, t, st) ==
    IF ~StartsWithUp(container.Status) THEN ExitedStep(node, container, flt, t, st)
    ELSE IF HasCaptainPort(container) THEN UpStep(node, container, flt, st)
    ELSE st

RECURSIVE PassLoop(_, _, _, _, _, _)
\* the for loop of lines 48-70; what a turn leaves is a value, worked out once,
\* before the next turn begins
PassLoop(node, node_containers, i, flt, t, st) ==
    IF st.raised \/ i > Len(node_containers) THEN st
    ELSE CHOOSE end \in {PassLoop(node, node_containers, i + 1, flt, t, st1) :
                             st1 \in {ContainerStep(node, node_containers[i], flt, t, st)}} :
            TRUE

GetNodeInstances(node, dn, ch, flt, t) ==
    LET st0 == [dn |-> dn, cache |-> ch,
                calls |-> <<Call(node, "containers", "-", "-")>>,
                out |-> <<>>, raised |-> FALSE, got |-> {}]
    IN IF flt[node] = "containers" THEN Raise(st0)
       ELSE CHOOSE end \in {PassLoop(node, node_containers, 1, flt, t, st0) :
                                node_containers \in {DContainers(dn)}} : TRUE

----------------------------------------------------------------------------
(* Connection.get_instances: the fan-out over the nodes.  The workers touch  *)
(* distinct daemons and distinct cache keys, so a run is the passes taken in *)
(* the order as_completed yields them.  The state is [daemon, cache, calls,  *)
(* instances, failed, got]: failed holds the nodes whose future carried an   *)
(* exception, got the inspection pairs of each pass that ran.                *)

NoFilter == ""

\* lines 76-80: node_filter None keeps every node
FilteredNodes(node_filter) ==
    IF node_filter = NoFilter THEN Nodes
    ELSE {node \in Nodes : node = node_filter}

\* the orders in which the futures of a set of nodes can complete
Orders(S) ==
    {o \in [1..Cardinality(S) -> S] : \A i, j \in 1..Cardinality(S) : o[i] = o[j] => i = j}

\* a collection that a failed future cancels: what was gathered is dropped
CollectCancelling(node, g, p) ==
    LET g1 == [g EXCEPT !.daemon[node] = p.dn, !.cache = p.cache,
                        !.calls = @ \o p.calls, !.got[node] = p.got,
                        !.ran = @ \cup {node}]
    IN IF p.raised THEN [g1 EXCEPT !.failed = @ \cup {node}, !.instances = <<>>]
       ELSE [g1 EXCEPT !.instances = @ \o p.out]

\* a collection that puts the first instance of a node in front of the
\* instances collected so far and the others behind them
CollectSplit(node, g, p) ==
    LET g1 == [g EXCEPT !.daemon[node] = p.dn, !.cache = p.cache,
                        !.calls = @ \o p.calls, !.got[node] = p.got,
                        !.ran = @ \cup {node}]
    IN IF p.raised THEN [g1 EXCEPT !.failed = @ \cup {node}]
       ELSE IF p.out = <<>> THEN g1
       ELSE [g1 EXCEPT !.instances = <<Head(p.out)>> \o @ \o Tail(p.out)]

\* lines 83-89: one completed future
Collect(node, g, p) ==
    LET g1 == [g EXCEPT !.daemon[node] = p.dn, !.cache = p.cache,
                        !.calls = @ \o p.calls, !.got[node] = p.got,
                        !.ran = @ \cup {node}]
    IN IF p.raised THEN [g1 EXCEPT !.failed = @ \cup {node}]
       ELSE [g1 EXCEPT !.instances = @ \o p.out]

CollectStep(node, flt, t, g) ==
    Collect(node, g, GetNodeInstances(node, g.daemon[node], g.cache, flt, t))

RECURSIVE CollectLoop(_, _, _, _, _)
CollectLoop(order, i, flt, t, g) ==
    IF i > Len(order) THEN g
    ELSE CollectLoop(order, i + 1, flt, t, CollectStep(order[i], flt, t, g))

GetInstances(order, dmn, ch, flt, t) ==
    CollectLoop(order, 1, flt, t,
                [daemon |-> dmn, cache |-> ch, calls |-> <<>>, instances |-> <<>>,
                 failed |-> {}, ran |-> {}, got |-> [n \in Nodes |-> {}]])

\* reduce(lambda x, y: x + y["slots"], instances, 0)
SumSlots(instances) == SeqSum([i \in 1..Len(instances) |-> instances[i].slots])

----------------------------------------------------------------------------
(* Connection.get_node *)

\* what a ping can raise: the two transport errors of requests, or the
\* APIError docker-py makes of an HTTP error status
PingErrors == {"ConnectionError", "Timeout", "APIError"}

\* line 106
TransportErrorsNoTimeout == {"ConnectionError"}
TransportErrors == {"ConnectionError", "Timeout"}

\* repr(e)
Repr(e) ==
    CASE e = "ConnectionError" -> "ConnectionError()"
      [] e = "Timeout" -> "Timeout()"
      [] OTHER -> "APIError()"

\* lines 92-113; exc is the exception a failing ping raises
GetNodeWith(name, dmn, ch, flt, exc, g) ==
    LET ping == <<Call(name, "ping", "-", "-")>>
        countainer_count == SumSlots(g.instances)
        base == [daemon |-> dmn, cache |-> ch, calls |-> <<>>, kind |-> "raise",
                 exc |-> "NoSuchNodeException", ran |-> {}, got |-> [n \in Nodes |-> {}],
                 value |-> [id |-> name, total |-> 0, used |-> 0, free |-> 0,
                            state |-> "-"]]
    IN IF name \notin Nodes THEN base
       ELSE IF flt[name] = "ping" /\ exc \in TransportErrors
       THEN [base EXCEPT !.calls = ping, !.kind = "ok", !.exc = "-",
                         !.value.state = Repr(exc)]
       ELSE IF flt[name] = "ping"
       THEN [base EXCEPT !.calls = ping, !.exc = exc]
       ELSE [daemon |-> g.daemon, cache |-> g.cache, calls |-> ping \o g.calls,
             kind |-> "ok", exc |-> "-", ran |-> g.ran, got |-> g.got,
             value |-> [id |-> name, total |-> slots_per_node,
                        used |-> countainer_count,
                        free |-> slots_per_node - countainer_count,
                        state |-> "healthy"]]

\* a get_node that looks the name up only once it has pinged
GetNodePingFirst(name, dmn, ch, flt, t, exc) ==
    LET r == GetNodeWith(name, dmn, ch, flt, exc,
                         GetInstances(CHOOSE o \in Orders(FilteredNodes(name)) : TRUE,
                                      dmn, ch, flt, t))
    IN IF name \in Nodes THEN r
       ELSE [r EXCEPT !.calls = <<Call(name, "ping", "-", "-")>>]

GetNode(name, dmn, ch, flt, t, exc) ==
    GetNodeWith(name, dmn, ch, flt, exc,
                GetInstances(CHOOSE o \in Orders(FilteredNodes(name)) : TRUE,
                             dmn, ch, flt, t))

(* Connection.get_nodes *)

\* lines 120-125: the future of a node has completed
GetNodesStep(node, r, st) ==
    [daemon |-> r.daemon, cache |-> r.cache, calls |-> st.calls \o r.calls,
     nodes |-> IF r.kind = "raise" THEN st.nodes ELSE Append(st.nodes, r.value),
     ran |-> st.ran \cup r.ran,
     got |-> [n \in Nodes |-> IF n \in r.ran THEN r.got[n] ELSE st.got[n]]]

RECURSIVE GetNodesLoop(_, _, _, _, _, _)
GetNodesLoop(order, i, flt, t, excs, st) ==
    IF i > Len(order) THEN st
    ELSE GetNodesLoop(order, i + 1, flt, t, excs,
                      GetNodesStep(order[i],
                                   GetNode(order[i], st.daemon, st.cache, flt, t,
                                           excs[order[i]]),
                                   st))

\* lines 115-126; order is the order in which the futures complete, excs
\* what the ping of each node raises if it fails
GetNodes(order, dmn, ch, flt, t, excs) ==
    GetNodesLoop(order, 1, flt, t, excs,
                 [daemon |-> dmn, cache |-> ch, calls |-> <<>>, nodes |-> <<>>,
                  ran |-> {}, got |-> [n \in Nodes |-> {}]])

----------------------------------------------------------------------------
(* Connection.start_instance *)

NewIds == <<"x1", "x2", "x3", "x4">>
NewUuids == <<"u1", "u2", "u3", "u4">>

\* the keys a caller's environment may hold, in the order the client lists them
EnvKeyOrder == <<"HMRC_CONFIG", "JAVA_OPTS", "PORT", "SLUG_URL">>

\* what the slug runner image adds to every container's Env
ImageEnv == <<<<"HOME", "=", "/">>, <<"PATH", "=", "/bin">>>>

RECURSIVE EnvListFrom(_, _)
\* the dict passed as environment=, as the "K=V" list the daemon stores
EnvListFrom(environment, i) ==
    IF i > Len(EnvKeyOrder) THEN <<>>
    ELSE IF EnvKeyOrder[i] \in DOMAIN environment
    THEN <<<<EnvKeyOrder[i], "=">> \o environment[EnvKeyOrder[i]]>>
         \o EnvListFrom(environment, i + 1)
    ELSE EnvListFrom(environment, i + 1)

\* reserved keys that are set only where the caller left them out
StartEnvironmentKeepingCallers(environment, slug_uri) ==
    LET e1 == IF "PORT" \in DOMAIN environment THEN environment
              ELSE MapPut(environment, "PORT", <<"8080">>)
    IN IF "SLUG_URL" \in DOMAIN e1 THEN e1 ELSE MapPut(e1, "SLUG_URL", slug_uri)

\* lines 129-130
StartEnvironment(environment, slug_uri) ==
    MapPut(MapPut(environment, "PORT", <<"8080">>), "SLUG_URL", slug_uri)

\* lines 132-134: "if not slots" takes None and 0 alike
StartSlots(slots) == IF slots = 0 THEN default_slots_per_instance ELSE slots

\* an admission test that lets every request through
OverCapacityNever(instances, slots) == FALSE

\* line 135
OverCapacity(instances, slots) == Len(instances) + slots > slots_per_node

\* line 147
ContainerName(app, uuid) == app \o <<"_", uuid>>

\* a start_instance that inspects the container before it starts it
StartWithEarlyInspect(app, slug_uri, node, environment, slots0, flt, n, g) ==
    LET env == StartEnvironment(environment, slug_uri)
        slots == StartSlots(slots0)
        id == NewIds[n + 1]
        c1 == Append(g.calls, Call(node, "create_container", id, "-"))
        c2 == Append(c1, Call(node, "inspect_container", id, "-"))
        c3 == Append(c2, Call(node, "start", id, "bind"))
        d1 == [g.daemon EXCEPT ![node] =
                  DCreate(@, id, <<"/">> \o ContainerName(app, NewUuids[n + 1]),
                          EnvListFrom(env, 1) \o ImageEnv, slots)]
        d2 == [d1 EXCEPT ![node] = DStart(@, id, TRUE)]
        base == [daemon |-> g.daemon, cache |-> g.cache, calls |-> g.calls,
                 kind |-> "raise", exc |-> "-", ran |-> g.ran, got |-> g.got,
                 passed |-> g.daemon, created |-> 0, node |-> node, slots |-> slots, admitted |-> g.instances,
                 environment |-> env, instance |-> <<>>]
    IN IF OverCapacity(g.instances, slots)
       THEN [base EXCEPT !.exc = "NodeOutOfCapacityException"]
       ELSE IF node \notin Nodes
       THEN [base EXCEPT !.exc = "KeyError"]
       ELSE [base EXCEPT !.exc = "ValueError", !.calls = c3, !.daemon = d2,
                         !.created = 1]

StartWith(app, slug_uri, node, environment, slots0, flt, n, g) ==
    LET env == StartEnvironment(environment, slug_uri)
        slots == StartSlots(slots0)
        id == NewIds[n + 1]
        c1 == Append(g.calls, Call(node, "create_container", id, "-"))
        c2 == Append(c1, Call(node, "start", id, "bind"))
        c3 == Append(c2, Call(node, "inspect_container", id, "-"))
        d1 == [g.daemon EXCEPT ![node] =
                  DCreate(@, id, <<"/">> \o ContainerName(app, NewUuids[n + 1]),
                          EnvListFrom(env, 1) \o ImageEnv, slots)]
        d2 == [d1 EXCEPT ![node] = DStart(@, id, TRUE)]
        container_inspected == DInspect(d2[node], id)
        base == [daemon |-> g.daemon, cache |-> g.cache, calls |-> g.calls,
                 kind |-> "raise", exc |-> "-", ran |-> g.ran, got |-> g.got,
                 passed |-> g.daemon, created |-> 0, node |-> node, slots |-> slots, admitted |-> g.instances,
                 environment |-> env, instance |-> <<>>]
    IN IF OverCapacity(g.instances, slots)
       THEN [base EXCEPT !.exc = "NodeOutOfCapacityException"]
       ELSE IF node \notin Nodes
       THEN [base EXCEPT !.exc = "KeyError"]
       ELSE IF flt[node] = "create_container"
       THEN [base EXCEPT !.exc = "ConnectionError", !.calls = c1]
       ELSE IF flt[node] = "start"
       THEN [base EXCEPT !.exc = "ConnectionError", !.calls = c2, !.daemon = d1,
                         !.created = 1]
       ELSE IF flt[node] = "inspect_container"
       THEN [base EXCEPT !.exc = "ConnectionError", !.calls = c3, !.daemon = d2,
                         !.created = 1]
       ELSE IF ~GetInstanceOk(container_inspected)
       THEN [base EXCEPT !.exc = "ValueError", !.calls = c3, !.daemon = d2,
                         !.created = 1]
       ELSE [base EXCEPT !.kind = "ok", !.calls = c3, !.daemon = d2, !.created = 1,
                         !.instance = <<GetInstance(node, container_inspected)>>]

StartInstance(app, slug_uri, node, environment, slots0, dmn, ch, flt, t, n) ==
    StartWith(app, slug_uri, node, environment, slots0, flt, n,
              GetInstances(CHOOSE o \in Orders(FilteredNodes(node)) : TRUE,
                           dmn, ch, flt, t))

----------------------------------------------------------------------------
(* Connection.stop_instance *)

\* a lookup that takes the first instance whatever its id
InstanceIndexFirst(instances, instance_id) ==
    IF instances = <<>> THEN 0 ELSE 1

\* the first instance of the list with the id, 0 when there is none
InstanceIndex(instances, instance_id) ==
    CHOOSE i \in 0..Len(instances) :
        IF \E j \in 1..Len(instances) : instances[j].id = instance_id
        THEN /\ i # 0
             /\ instances[i].id = instance_id
             /\ \A j \in 1..(i - 1) : instances[j].id # instance_id
        ELSE i = 0

\* a remove whose failure reaches the caller
StopRemoveRaising(docker_hostname, docker_container_id, flt, r) ==
    IF flt[docker_hostname] = "remove_container"
    THEN [r EXCEPT !.kind = "raise", !.exc = "APIError", !.value = FALSE]
    ELSE [r EXCEPT !.daemon[docker_hostname] = DRemove(@, docker_container_id)]

\* lines 175-180: the remove is tried and its failure dropped; r is the
\* outcome once stop has returned
StopRemove(docker_hostname, docker_container_id, flt, r) ==
    IF flt[docker_hostname] = "remove_container" THEN r
    ELSE [r EXCEPT !.daemon[docker_hostname] = DRemove(@, docker_container_id)]

\* a stop_instance that stops the container and leaves it in place
StopWithoutRemove(instance_id, flt, t, g) ==
    LET i == InstanceIndex(g.instances, instance_id)
        base == [daemon |-> g.daemon, cache |-> g.cache, calls |-> g.calls,
                 kind |-> "ok", exc |-> "-", ran |-> g.ran, got |-> g.got,
                 passed |-> g.daemon, failed |-> g.failed, found |-> g.instances, value |-> FALSE]
    IN IF i = 0 THEN base
       ELSE [base EXCEPT !.calls = Append(g.calls, Call(g.instances[i].node, "stop",
                                                         instance_id, "-")),
                         !.value = TRUE,
                         !.daemon[g.instances[i].node] = DStop(@, instance_id, t)]

StopWith(instance_id, flt, t, g) ==
    LET i == InstanceIndex(g.instances, instance_id)
        docker_hostname == g.instances[i].node
        c1 == Append(g.calls, Call(docker_hostname, "stop", instance_id, "-"))
        c2 == Append(c1, Call(docker_hostname, "remove_container", instance_id, "force"))
        d1 == [g.daemon EXCEPT ![docker_hostname] = DStop(@, instance_id, t)]
        base == [daemon |-> g.daemon, cache |-> g.cache, calls |-> g.calls,
                 kind |-> "ok", exc |-> "-", ran |-> g.ran, got |-> g.got,
                 passed |-> g.daemon, failed |-> g.failed, found |-> g.instances, value |-> FALSE]
    IN IF i = 0 THEN base
       ELSE IF flt[docker_hostname] = "stop"
       THEN [base EXCEPT !.kind = "raise", !.exc = "ConnectionError", !.calls = c1]
       ELSE StopRemove(docker_hostname, instance_id, flt,
                       [base EXCEPT !.calls = c2, !.value = TRUE, !.daemon = d1])

StopInstance(instance_id, order, dmn, ch, flt, t) ==
    StopWith(instance_id, flt, t, GetInstances(order, dmn, ch, flt, t))

----------------------------------------------------------------------------
(* The log stream decoder of a node's client and Connection.get_logs.       *)
(* A byte string is a sequence of numbers below 256; the text of a log blob *)
(* is a sequence of tokens, "\n" being one of them.                         *)

\* the header is 8 bytes; iter_content(10) hands over at most 10 at a time
HeaderLen == 8
ChunkSize == 10

\* what a run reads: frames, payload bytes per frame, lines of a blob
MaxFrames == 2
MaxPayload == 3
MaxLines == 2

Min(a, b) == IF a < b THEN a ELSE b

RECURSIVE Flatten(_)
Flatten(ss) == IF ss = <<>> THEN <<>> ELSE Head(ss) \o Flatten(Tail(ss))

SeqsUpTo(S, n) == UNION {[1..k -> S] : k \in 0..n}

\* a frame as the daemon sends it: '>BxxxL' is one byte of stream kind, three
\* of padding and the payload length as four bytes, the highest first
Header(L) ==
    <<1, 0, 0, 0, (L \div 16777216) % 256, (L \div 65536) % 256,
      (L \div 256) % 256, L % 256>>
\* the bytes of the f-th payload: no two payload bytes of a stream are equal
Payload(f, L) == [k \in 1..L |-> 32 * f + k]
Payloads(lens) == [f \in 1..Len(lens) |-> Payload(f, lens[f])]
Frames(lens) == Flatten([f \in 1..Len(lens) |-> Header(lens[f]) \o Payload(f, lens[f])])

\* struct.unpack('>BxxxL', header)[1]
UnpackLength(header) ==
    ((header[5] * 256 + header[6]) * 256 + header[7]) * 256 + header[8]

\* length is None or a number: <<>> or <<L>>; "not length" takes None and 0
NoLength == <<>>
Falsy(length) == length = NoLength \/ length[1] = 0

\* data_buffer[a:] and data_buffer[a:b], counting from 0 as the code does
SliceFrom(s, a) == SubSeq(s, a + 1, Len(s))
Slice(s, a, b) == SubSeq(s, a + 1, Min(b, Len(s)))

\* a turn that yields what the buffer holds of a payload once the header is in
DecodeTurnEager(data_buffer, length) ==
    LET length1 == IF Falsy(length) /\ Len(data_buffer) > HeaderLen
                   THEN <<UnpackLength(Slice(data_buffer, 0, HeaderLen))>>
                   ELSE length
    IN IF ~Falsy(length1)
       THEN [data_buffer |-> SliceFrom(data_buffer, HeaderLen + length1[1]),
             length |-> NoLength,
             yield |-> <<Slice(data_buffer, HeaderLen, HeaderLen + length1[1])>>]
       ELSE [data_buffer |-> data_buffer, length |-> length1, yield |-> <<>>]

\* lines 207-216: one turn of the loop after the chunk joined the buffer;
\* yield holds the payload the turn yields, if it yields one
DecodeTurn(data_buffer, length) ==
    LET length1 == IF Falsy(length) /\ Len(data_buffer) > HeaderLen
                   THEN <<UnpackLength(Slice(data_buffer, 0, HeaderLen))>>
                   ELSE length
    IN IF ~Falsy(length1) /\ Len(SliceFrom(data_buffer, HeaderLen)) >= length1[1]
       THEN [data_buffer |-> SliceFrom(data_buffer, HeaderLen + length1[1]),
             length |-> NoLength,
             yield |-> <<Slice(data_buffer, HeaderLen, HeaderLen + length1[1])>>]
       ELSE [data_buffer |-> data_buffer, length |-> length1, yield |-> <<>>]

\* the generator get_logs returns in follow mode
NoReader ==
    [state |-> "none", lens |-> <<>>, cut |-> 0, rest |-> <<>>, data_buffer |-> <<>>,
     length |-> NoLength, out |-> <<>>]
\* lines 198-200: response is the stream of the frames with payloads of lens
OpenReader(lens) ==
    [NoReader EXCEPT !.state = "open", !.lens = lens, !.rest = Frames(lens)]

\* a response that ends cut bytes before the end of its last frame
OpenTruncated(lens, cut) ==
    [OpenReader(lens) EXCEPT !.cut = cut,
                             !.rest = SubSeq(@, 1, Len(@) - cut)]

RECURSIVE Split(_, _)
\* s.split(sep): the parts between the separators, one more than there are
Split(s, sep) ==
    LET i == IndexOf(s, sep, 1)
    IN IF i = 0 THEN <<s>>
       ELSE <<SubSeq(s, 1, i - 1)>> \o Split(SubSeq(s, i + 1, Len(s)), sep)

\* the blob logs(instance_id) returns for these lines
Blob(lines) == Flatten([i \in 1..Len(lines) |-> lines[i] \o <<"\n">>])

\* line 254
OneShotRecords(blob) ==
    LET parts == Split(blob, "\n")
    IN [i \in 1..Len(parts) |-> [msg |-> parts[i] \o <<"\n">>]]

\* line 246: the instances with the id
InstanceDetailsAny(instances, instance_id) == instances
InstanceDetails(instances, instance_id) ==
    SelectSeq(instances, LAMBDA i : i.id = instance_id)

\* lines 245-255; g is the inventory get_instances() returned
GetLogsWith(instance_id, follow, flt, g) ==
    LET found == InstanceDetails(g.instances, instance_id)
        node == found[1].node
        logs == Append(g.calls, Call(node, "logs", instance_id,
                                     IF follow THEN "stream" ELSE "-"))
        base == [daemon |-> g.daemon, cache |-> g.cache, calls |-> g.calls,
                 kind |-> "raise", exc |-> "NoSuchInstanceException",
                 ran |-> g.ran, got |-> g.got, passed |-> g.daemon,
                 found |-> g.instances]
    IN IF found = <<>> THEN base
       ELSE IF flt[node] = "logs"
       THEN [base EXCEPT !.exc = "ConnectionError", !.calls = logs]
       ELSE [base EXCEPT !.kind = "ok", !.exc = "-", !.calls = logs]

GetLogs(instance_id, follow, order, dmn, ch, flt, t) ==
    GetLogsWith(instance_id, follow, flt, GetInstances(order, dmn, ch, flt, t))

----------------------------------------------------------------------------
(* The fleet the Connection is constructed against *)

Ctr(id, name, env, shares, exposed, status, port, finished) ==
    [Id |-> id, Name |-> name, Env |-> env, CpuShares |-> shares,
     Exposed |-> exposed, Status |-> status, HostPort |-> port,
     LastPort |-> port, FinishedAt |-> finished]

PayeEnv == <<<<"HMRC_CONFIG", "=", "-Da", "=", "b">>, <<"JAVA_OPTS", "=", "-Xmx">>,
             <<"SLUG_URL", "=", "s1">>, <<"PORT", "=", "8080">>>> \o ImageEnv
ErsEnv == <<<<"SLUG_URL", "=", "s2">>, <<"PORT", "=", "8080">>>> \o ImageEnv

\* a container of paye that is not running: stopped with the zero exit time
\* or with a real one, or created and never started
SecondStopped(finished) ==
    Ctr("c2", <<"/", "paye", "_", "215">>, PayeEnv, 2, <<AppPort>>,
        StatusStopped, NoPort, finished)
SecondCreated ==
    Ctr("c2", <<"/", "paye", "_", "215">>, PayeEnv, 2, <<AppPort>>,
        StatusCreated, NoPort, ZeroTime)

\* a registry: running with a second port, or crashed
ThirdUp ==
    Ctr("c3", <<"/", "registry">>, ImageEnv, 0, <<AppPort, 9000>>,
        <<"Up", "2d">>, NoPort, ZeroTime)
ThirdExited ==
    Ctr("c3", <<"/", "registry">>, ImageEnv, 0, <<AppPort, 9000>>,
        <<"Exited", "(1)">>, NoPort, StartTime)

\* node n1: an instance, a container that is not running, the registry;
\* node n2: an instance, a container with another port, a container with none
Fleet(second, third) ==
    [n \in Nodes |->
        IF n = "n1"
        THEN << Ctr("c1", <<"/", "paye", "_", "216">>, PayeEnv, 2, <<AppPort>>,
                    <<"Up", "40m">>, PortA, ZeroTime),
                second,
                third >>
        ELSE << Ctr("c4", <<"/", "ers-checking-frontend-27">>, ErsEnv, 1, <<AppPort>>,
                    <<"Up", "19m">>, PortB, ZeroTime),
                Ctr("c5", <<"/", "proxy">>, ImageEnv, 0, <<9000>>,
                    <<"Up", "2d">>, NoPort, ZeroTime),
                Ctr("c6", <<"/", "cron">>, ImageEnv, 0, <<>>,
                    <<"Up", "2d">>, NoPort, ZeroTime) >>]

\* what callers pass to start_instance
StartRequests ==
    { [app |-> <<"paye">>, slug_uri |-> <<"s1">>, environment |-> EmptyMap],
      [app |-> <<"my", "_", "app">>, slug_uri |-> <<"s2", "=", "q">>,
       environment |-> [k \in {"JAVA_OPTS", "PORT"} |->
                           IF k = "PORT" THEN <<"9">> ELSE <<"-Xmx", "=", "1">>]] }
SlotChoices == 0..slots_per_node
NodeNames == Nodes \cup {"nx"}

\* the fault maps an operation is run under: one node failing one of the
\* calls the operation can make, or every node failing its listing
OneFault(kinds) ==
    {f \in [Nodes -> kinds \cup {"none"}] : Cardinality({n \in Nodes : f[n] # "none"}) <= 1}
PassOps == {"containers", "inspect_container", "start", "kill", "remove_container"}
PassFaults(S) ==
    {f \in OneFault(PassOps) \cup {[n \in Nodes |-> "containers"]} :
        \A n \in Nodes \ S : f[n] = "none"}
StartFaults(node) ==
    {f \in OneFault({"containers", "create_container", "start", "inspect_container"}) :
        \A n \in Nodes \ {node} : f[n] = "none"}
StopFaults ==
    OneFault({"containers", "inspect_container", "stop", "remove_container"})
    \cup {[n \in Nodes |-> "containers"]}

\* the threads of the facade that call start_instance at the same time, and
\* what each passes
Callers == {"a", "b"}
RaceRequest == CHOOSE req \in StartRequests : req.environment = EmptyMap
NotCalled ==
    [pc |-> "idle", node |-> "-", slots |-> 0, admitted |-> <<>>, id |-> "-",
     calls |-> <<>>, instance |-> <<>>]

LogFaults == OneFault({"containers", "logs"})
\* every combination of nodes whose ping or whose listing fails
NodeFaults == [Nodes -> {"none", "ping", "containers"}]
\* what the failing pings raise
PingExcs(flt) ==
    {excs \in [Nodes -> PingErrors] :
        \A n \in Nodes : flt[n] # "ping" => excs[n] = "ConnectionError"}

\* what a daemon has to send for a container's log: the payload lengths of
\* its frames, or the lines of its blob
FrameSeqs == SeqsUpTo(0..MaxPayload, MaxFrames)
LineChoices == {<<>>, <<"a">>, <<"b", "c">>}
LineSeqs == SeqsUpTo(LineChoices, MaxLines)

AllIds(dmn) == UNION {{dmn[n][i].Id : i \in 1..Len(dmn[n])} : n \in Nodes}

----------------------------------------------------------------------------
(* The state machine.  An operation runs to completion in one step and      *)
(* leaves its calls and its outcome; Return hands the outcome to the caller. *)
(* Operations and the clock move only between operations.                   *)

Stale == [got |-> {}, asked |-> {}, fresh |-> FALSE]
NoResult == [op |-> "none", kind |-> "ok", exc |-> "-"]
Idle == result.op = "none"

\* an operation can start
CanBegin == Idle /\ left > 0
Begin == CanBegin /\ left' = left - 1

\* the ids an operation asked a node's daemon to inspect
Asked(cl, node) ==
    {cl[i].id : i \in {j \in 1..Len(cl) :
                          cl[j].node = node /\ cl[j].op = "inspect_container"}}

\* what the passes of an operation leave behind: r is the operation's outcome,
\* r.passed the daemons as its passes left them
PassesLeft(r) ==
    [n \in Nodes |->
        IF n \in r.ran
        THEN IF r.daemon[n] = r.passed[n]
             THEN [got |-> r.got[n], asked |-> Asked(r.calls, n), fresh |-> TRUE]
             ELSE Stale
        ELSE IF r.daemon[n] # daemon[n] THEN Stale
        ELSE lastPass[n]]

\* the state after construction: nothing cached, nothing asked yet
Constructed(dmn, n) ==
    /\ daemon = dmn
    /\ now = StartTime
    /\ cache = <<>>
    /\ nextId = 0
    /\ calls = <<>>
    /\ result = NoResult
    /\ lastPass = [node \in Nodes |-> Stale]
    /\ left = n
    /\ reader = NoReader
    /\ starting = [p \in Callers |-> NotCalled]

Init ==
    \E finished \in {ZeroTime, StartTime} :
        Constructed(Fleet(SecondStopped(finished), ThirdUp), MaxOps)

InitInventory ==
    \E second \in {SecondStopped(ZeroTime), SecondStopped(StartTime), SecondCreated},
       third \in {ThirdUp, ThirdExited} :
        Constructed(Fleet(second, third), MaxPasses)

\* one get_node_instances call, whatever the run's budget of operations
NodePass(node, flt) ==
    /\ \E p \in {GetNodeInstances(node, daemon[node], cache, flt, now)} :
       \E r \in {[daemon |-> [daemon EXCEPT ![node] = p.dn],
                  passed |-> [daemon EXCEPT ![node] = p.dn], calls |-> p.calls,
                  ran |-> {node}, got |-> [n \in Nodes |-> p.got]]} :
          /\ daemon' = r.daemon
          /\ cache' = p.cache
          /\ calls' = p.calls
          /\ result' = [op |-> "get_node_instances",
                        kind |-> IF p.raised THEN "raise" ELSE "ok",
                        exc |-> IF p.raised THEN "Exception" ELSE "-",
                        flt |-> flt, ran |-> {node},
                        node |-> node, instances |-> p.out]
          /\ lastPass' = PassesLeft(r)
    /\ UNCHANGED <<now, nextId, reader, starting>>

OpGetNodeInstances(node, flt) == Begin /\ NodePass(node, flt)

OpGetInstances(node_filter, order, flt) ==
    /\ Begin
    /\ order \in Orders(FilteredNodes(node_filter))
    /\ \E g \in {GetInstances(order, daemon, cache, flt, now)} :
          /\ daemon' = g.daemon
          /\ cache' = g.cache
          /\ calls' = g.calls
          /\ result' = [op |-> "get_instances", kind |-> "ok", exc |-> "-",
                        flt |-> flt, ran |-> g.ran,
                        node_filter |-> node_filter, instances |-> g.instances,
                        failed |-> g.failed]
          /\ lastPass' = PassesLeft([daemon |-> g.daemon, passed |-> g.daemon,
                                     calls |-> g.calls, ran |-> g.ran,
                                     got |-> g.got])
    /\ UNCHANGED <<now, nextId, reader, starting>>

OpStartInstance(req, node, slots, flt) ==
    /\ Begin
    /\ nextId < MaxCreated
    /\ \E r \in {StartInstance(req.app, req.slug_uri, node, req.environment, slots,
                                daemon, cache, flt, now, nextId)} :
          /\ daemon' = r.daemon
          /\ cache' = r.cache
          /\ calls' = r.calls
          /\ nextId' = nextId + r.created
          /\ result' = [op |-> "start_instance", kind |-> r.kind, exc |-> r.exc,
                        flt |-> flt, ran |-> r.ran,
                        node |-> node, app |-> req.app, slots |-> r.slots,
                        admitted |-> r.admitted, instances |-> r.instance,
                        req |-> req, environment |-> r.environment]
          /\ lastPass' = PassesLeft(r)
    /\ UNCHANGED <<now, reader, starting>>

OpStopInstance(instance_id, order, flt) ==
    /\ Begin
    /\ \E r \in {StopInstance(instance_id, order, daemon, cache, flt, now)} :
          /\ daemon' = r.daemon
          /\ cache' = r.cache
          /\ calls' = r.calls
          /\ result' = [op |-> "stop_instance", kind |-> r.kind, exc |-> r.exc,
                        flt |-> flt, ran |-> r.ran,
                        id |-> instance_id, value |-> r.value, found |-> r.found,
                        failed |-> r.failed]
          /\ lastPass' = PassesLeft(r)
    /\ UNCHANGED <<now, nextId, reader, starting>>

OpGetNode(name, flt, exc) ==
    /\ Begin
    /\ \E r \in {GetNode(name, daemon, cache, flt, now, exc)} :
          /\ daemon' = r.daemon
          /\ cache' = r.cache
          /\ calls' = r.calls
          /\ result' = [op |-> "get_node", kind |-> r.kind, exc |-> r.exc,
                        flt |-> flt, ran |-> r.ran,
                        name |-> name, raised |-> exc, value |-> r.value]
          /\ lastPass' = PassesLeft([daemon |-> r.daemon, passed |-> r.daemon,
                                     calls |-> r.calls, ran |-> r.ran,
                                     got |-> r.got])
    /\ UNCHANGED <<now, nextId, reader, starting>>

OpGetNodes(order, flt, excs) ==
    /\ Begin
    /\ \E r \in {GetNodes(order, daemon, cache, flt, now, excs)} :
          /\ daemon' = r.daemon
          /\ cache' = r.cache
          /\ calls' = r.calls
          /\ result' = [op |-> "get_nodes", kind |-> "ok", exc |-> "-",
                        flt |-> flt, ran |-> r.ran,
                        order |-> order, raised |-> excs, nodes |-> r.nodes]
          /\ lastPass' = PassesLeft([daemon |-> r.daemon, passed |-> r.daemon,
                                     calls |-> r.calls, ran |-> r.ran,
                                     got |-> r.got])
    /\ UNCHANGED <<now, nextId, reader, starting>>

\* start_instance as concurrent callers run it: every daemon call of a call
\* is a step of its own, and the steps of the calls interleave.

\* what the steps of a call leave of earlier passes
AfterStep(dmn) ==
    PassesLeft([daemon |-> dmn, passed |-> dmn, calls |-> <<>>, ran |-> {},
                got |-> [n \in Nodes |-> {}]])

\* lines 129-136: the inventory of the node and the admission test
RaceAdmit(p, node, slots) ==
    /\ starting[p].pc = "idle"
    /\ \E g \in {GetInstances(CHOOSE o \in Orders(FilteredNodes(node)) : TRUE,
                               daemon, cache, NoFault, now)} :
          /\ daemon' = g.daemon
          /\ cache' = g.cache
          /\ starting' = [starting EXCEPT ![p] =
                           [@ EXCEPT !.pc = IF OverCapacity(g.instances, StartSlots(slots))
                                            THEN "refused" ELSE "admitted",
                                     !.node = node,
                                     !.slots = StartSlots(slots),
                                     !.admitted = g.instances,
                                     !.calls = g.calls]]
          /\ lastPass' = PassesLeft([daemon |-> g.daemon, passed |-> g.daemon,
                                     calls |-> g.calls, ran |-> g.ran,
                                     got |-> g.got])
    /\ UNCHANGED <<now, nextId, calls, result, left, reader>>

\* lines 138-149
RaceCreate(p) ==
    /\ starting[p].pc = "admitted"
    /\ \E id \in {NewIds[nextId + 1]} :
          /\ daemon' = [daemon EXCEPT ![starting[p].node] =
                           DCreate(@, id,
                                   <<"/">> \o ContainerName(RaceRequest.app,
                                                           NewUuids[nextId + 1]),
                                   EnvListFrom(StartEnvironment(RaceRequest.environment,
                                                                RaceRequest.slug_uri), 1)
                                      \o ImageEnv,
                                   starting[p].slots)]
          /\ starting' = [starting EXCEPT ![p] =
                           [@ EXCEPT !.pc = "created", !.id = id,
                                     !.calls = Append(@, Call(starting[p].node,
                                                              "create_container", id, "-"))]]
    /\ nextId' = nextId + 1
    /\ lastPass' = AfterStep(daemon')
    /\ UNCHANGED <<now, cache, calls, result, left, reader>>

\* line 153
RaceStart(p) ==
    /\ starting[p].pc = "created"
    /\ daemon' = [daemon EXCEPT ![starting[p].node] = DStart(@, starting[p].id, TRUE)]
    /\ starting' = [starting EXCEPT ![p] =
                     [@ EXCEPT !.pc = "started",
                               !.calls = Append(@, Call(starting[p].node, "start",
                                                        starting[p].id, "bind"))]]
    /\ lastPass' = AfterStep(daemon')
    /\ UNCHANGED <<now, cache, nextId, calls, result, left, reader>>

\* lines 158-162
RaceInspect(p) ==
    /\ starting[p].pc = "started"
    /\ \E container_inspected \in {DInspect(daemon[starting[p].node], starting[p].id)} :
          starting' = [starting EXCEPT ![p] =
                       [@ EXCEPT !.pc = IF GetInstanceOk(container_inspected)
                                        THEN "done" ELSE "raised",
                                 !.calls = Append(@, Call(starting[p].node,
                                                          "inspect_container",
                                                          starting[p].id, "-")),
                                 !.instance = IF GetInstanceOk(container_inspected)
                                              THEN <<GetInstance(starting[p].node,
                                                                 container_inspected)>>
                                              ELSE <<>>]]
    /\ UNCHANGED <<daemon, now, cache, nextId, calls, result, lastPass, left, reader>>

\* content is what the daemon of the instance has to send; the caller asks
\* for a log once it has dropped the generator of the log before
OpGetLogs(instance_id, follow, order, flt, content) ==
    /\ Begin
    /\ reader.state = "none"
    /\ \E r \in {GetLogs(instance_id, follow, order, daemon, cache, flt, now)} :
          /\ daemon' = r.daemon
          /\ cache' = r.cache
          /\ calls' = r.calls
          /\ result' = [op |-> "get_logs", kind |-> r.kind, exc |-> r.exc,
                        flt |-> flt, ran |-> r.ran,
                        id |-> instance_id, follow |-> follow, found |-> r.found,
                        lines |-> IF r.kind = "ok" /\ ~follow THEN content ELSE <<>>,
                        records |-> IF r.kind = "ok" /\ ~follow
                                    THEN OneShotRecords(Blob(content)) ELSE <<>>]
          /\ reader' = IF r.kind = "ok" /\ follow THEN OpenReader(content) ELSE reader
          /\ lastPass' = PassesLeft(r)
    /\ UNCHANGED <<now, nextId, starting>>

\* lines 203-216: the caller, having taken the generator, asks for the next
\* record and i.next() hands over the next k bytes of the response
ReaderNext(k) ==
    /\ Idle
    /\ reader.state = "open"
    /\ k <= Len(reader.rest)
    /\ \E d \in {DecodeTurn(reader.data_buffer \o SubSeq(reader.rest, 1, k),
                              reader.length)} :
          reader' = [reader EXCEPT !.rest = SliceFrom(@, k),
                                   !.data_buffer = d.data_buffer,
                                   !.length = d.length,
                                   !.out = @ \o [i \in 1..Len(d.yield) |->
                                                     [msg |-> d.yield[i]]]]
    /\ UNCHANGED <<daemon, now, cache, nextId, calls, result, lastPass, left, starting>>

\* lines 205-206: the response has ended, i.next() raises StopIteration
ReaderStop ==
    /\ Idle
    /\ reader.state = "open"
    /\ reader.rest = <<>>
    /\ reader' = [reader EXCEPT !.state = "eof"]
    /\ UNCHANGED <<daemon, now, cache, nextId, calls, result, lastPass, left, starting>>

\* the caller drops the generator, read to its end or not
ReaderClose ==
    /\ Idle
    /\ reader.state # "none"
    /\ reader' = NoReader
    /\ UNCHANGED <<daemon, now, cache, nextId, calls, result, lastPass, left, starting>>

\* the decoder alone, on a response that may end inside its last frame: in
\* the header when fewer than HeaderLen bytes of the frame are left, in the
\* payload otherwise
Cuts(lens) ==
    IF lens = <<>> THEN {0} ELSE 0..(HeaderLen + lens[Len(lens)] - 1)

InitDecoder ==
    /\ daemon = Fleet(SecondStopped(StartTime), ThirdUp)
    /\ now = StartTime
    /\ cache = <<>>
    /\ nextId = 0
    /\ calls = <<>>
    /\ result = NoResult
    /\ lastPass = [node \in Nodes |-> Stale]
    /\ left = 0
    /\ starting = [p \in Callers |-> NotCalled]
    /\ \E lens \in FrameSeqs : \E cut \in Cuts(lens) :
          reader = OpenTruncated(lens, cut)

NextDecoder ==
    \/ \E k \in 1..ChunkSize : ReaderNext(k)
    \/ ReaderStop

SpecDecoder == InitDecoder /\ [][NextDecoder]_vars

\* the caller takes the outcome
Return ==
    /\ ~Idle
    /\ result' = NoResult
    /\ calls' = <<>>
    /\ UNCHANGED <<daemon, now, cache, nextId, lastPass, left, reader, starting>>

\* time passes
EnvTick ==
    /\ Idle
    /\ now < MaxTime
    /\ now' = now + 1
    /\ UNCHANGED <<daemon, cache, nextId, calls, result, lastPass, left, reader, starting>>

Next ==
    \/ /\ CanBegin
       /\ \E node \in Nodes : \E flt \in PassFaults({node}) :
             OpGetNodeInstances(node, flt)
    \/ /\ CanBegin
       /\ \E node_filter \in NodeNames \cup {NoFilter} :
             \E order \in Orders(FilteredNodes(node_filter)),
                flt \in PassFaults(FilteredNodes(node_filter)) :
                   OpGetInstances(node_filter, order, flt)
    \/ /\ CanBegin
       /\ \E req \in StartRequests, node \in NodeNames, slots \in SlotChoices :
             \E flt \in StartFaults(node) : OpStartInstance(req, node, slots, flt)
    \/ /\ CanBegin
       /\ \E instance_id \in AllIds(daemon) \cup {"nonexisting"},
             order \in Orders(Nodes), flt \in StopFaults :
                OpStopInstance(instance_id, order, flt)
    \/ Return
    \/ EnvTick

Spec == Init /\ [][Next]_vars

\* runs of inventories alone
NextInventory ==
    \/ /\ CanBegin
       /\ \E node \in Nodes : \E flt \in PassFaults({node}) :
             OpGetNodeInstances(node, flt)
    \/ /\ CanBegin
       /\ \E node_filter \in NodeNames \cup {NoFilter} :
             \E order \in Orders(FilteredNodes(node_filter)),
                flt \in PassFaults(FilteredNodes(node_filter)) :
                   OpGetInstances(node_filter, order, flt)
    \/ Return
    \/ EnvTick

SpecInventory == InitInventory /\ [][NextInventory]_vars

\* runs of get_node and get_nodes
NextNode ==
    \/ /\ CanBegin
       /\ \E name \in NodeNames, flt \in NodeFaults :
             \E excs \in PingExcs(flt) :
                OpGetNode(name, flt, IF name \in Nodes THEN excs[name]
                                     ELSE "ConnectionError")
    \/ /\ CanBegin
       /\ \E order \in Orders(Nodes), flt \in NodeFaults :
             \E excs \in PingExcs(flt) : OpGetNodes(order, flt, excs)
    \/ Return
    \/ EnvTick

SpecNode == Init /\ [][NextNode]_vars

\* runs of start_instance calls that overlap
NextRace ==
    \/ \E p \in Callers, node \in Nodes, slots \in SlotChoices : RaceAdmit(p, node, slots)
    \/ \E p \in Callers : RaceCreate(p)
    \/ \E p \in Callers : RaceStart(p)
    \/ \E p \in Callers : RaceInspect(p)

SpecRace == Init /\ [][NextRace]_vars

\* runs of get_logs and of the generator it returns
NextLogs ==
    \/ /\ CanBegin
       /\ reader.state = "none"
       /\ \E instance_id \in AllIds(daemon) \cup {"nonexisting"}, follow \in BOOLEAN,
             order \in Orders(Nodes), flt \in LogFaults :
                \E content \in IF follow THEN FrameSeqs ELSE LineSeqs :
                   OpGetLogs(instance_id, follow, order, flt, content)
    \/ \E k \in 1..ChunkSize : ReaderNext(k)
    \/ ReaderStop
    \/ ReaderClose
    \/ Return

SpecLogs == Init /\ [][NextLogs]_vars

\* the cache never reaches the size at which lru_cache evicts
----------------------------------------------------------------------------
(* Runs in which the daemon of n1 changes between inventories: the instance *)
(* container c1 exits by itself, and is started again with its port binding  *)
(* (docker start, a restart policy) when it is not running.  A second        *)
(* instance runs next to it.                                                 *)

\* inventories in a run with daemon changes
MaxChurn == 3

ChurnNode == "n1"
Churning == {"c1"}

SecondUp ==
    Ctr("c2", <<"/", "paye", "_", "215">>, PayeEnv, 1, <<AppPort>>,
        <<"Up", "3h">>, PortB, ZeroTime)

InitChurn == Constructed(Fleet(SecondUp, ThirdUp), MaxChurn)

\* what is known of the last pass over n no longer describes the daemon
Outdated(n) == [lastPass EXCEPT ![n].fresh = FALSE]

EnvExit(n, id) ==
    /\ Idle
    /\ \E j \in 1..Len(daemon[n]) :
          /\ daemon[n][j].Id = id
          /\ Running(daemon[n][j])
          /\ daemon[n][j].Exposed = <<AppPort>>
    /\ daemon' = [daemon EXCEPT ![n] = DStop(@, id, now)]
    /\ lastPass' = Outdated(n)
    /\ UNCHANGED <<now, cache, nextId, calls, result, left, reader, starting>>

EnvRestart(n, id) ==
    /\ Idle
    /\ \E j \in 1..Len(daemon[n]) :
          /\ daemon[n][j].Id = id
          /\ ~Running(daemon[n][j])
          /\ daemon[n][j].Exposed = <<AppPort>>
    /\ daemon' = [daemon EXCEPT ![n] = DStart(@, id, TRUE)]
    /\ lastPass' = Outdated(n)
    /\ UNCHANGED <<now, cache, nextId, calls, result, left, reader, starting>>

NextChurn ==
    \/ /\ CanBegin
       /\ \E order \in Orders(Nodes) : OpGetInstances(NoFilter, order, NoFault)
    \/ \E id \in Churning : EnvExit(ChurnNode, id)
    \/ \E id \in Churning : EnvRestart(ChurnNode, id)
    \/ Return
    \/ EnvTick

SpecChurn == InitChurn /\ [][NextChurn]_vars

----------------------------------------------------------------------------
(* Runs in which a start_instance leaves a container it created and could   *)
(* not start, and every node is inventoried again and again with no daemon   *)
(* call failing.                                                             *)

OrphanPass(node) ==
    /\ Idle
    /\ NodePass(node, NoFault)
    /\ UNCHANGED left

InitOrphan == Constructed(Fleet(SecondStopped(StartTime), ThirdUp), MaxOps)

StartFailing(node) == [n \in Nodes |-> IF n = node THEN "start" ELSE "none"]

NextOrphan ==
    \/ /\ CanBegin
       /\ \E node \in Nodes :
             OpStartInstance(RaceRequest, node, 1, StartFailing(node))
    \/ \E node \in Nodes : OrphanPass(node)
    \/ Return
    \/ EnvTick

\* the caller takes every outcome, and each node is inventoried infinitely
\* often
SpecOrphan ==
    /\ InitOrphan
    /\ [][NextOrphan]_vars
    /\ WF_vars(Return)
    /\ \A node \in Nodes : SF_vars(OrphanPass(node))

CacheBelowCapacity == Cardinality(DOMAIN cache) < lru_cache_size

----------------------------------------------------------------------------
(* What the properties below read off a state: the containers of a daemon   *)
(* that count as instances, and the calls an operation issued.              *)

Inventories == {"get_node_instances", "get_instances"}

\* Status starts with "Up " and the Ports list is the one port 8080
UpOn8080(summary) ==
    /\ Len(summary.Status) >= 2
    /\ summary.Status[1] = "Up"
    /\ Len(summary.Ports) = 1
    /\ summary.Ports[1].PrivatePort = 8080

LiveContainer(c) ==
    Len(c.Status) >= 2 /\ c.Status[1] = "Up" /\ c.Exposed = <<8080>>

IdsOf(rows) == [i \in 1..Len(rows) |-> rows[i].id]
LiveIds(dn) ==
    LET live == SelectSeq(dn, LiveContainer)
    IN [i \in 1..Len(live) |-> live[i].Id]
InstancesOn(instances, n) == SelectSeq(instances, LAMBDA x : x.node = n)
CallsOn(cl, n) == SelectSeq(cl, LAMBDA c : c.node = n)
Positions(cl, call) == {i \in 1..Len(cl) : cl[i] = call}

\* the call that was set to fail on n was issued, and so raised
FailedOn(n) ==
    /\ result.flt[n] # "none"
    /\ \E i \in 1..Len(calls) : calls[i].node = n /\ calls[i].op = result.flt[n]

----------------------------------------------------------------------------
(* C1: admission safety.  When a start_instance on a node whose inventoried  *)
(* instances used at most slots_per_node slots has succeeded, get_node of    *)
(* that node reports used <= slots_per_node.                                 *)
C1_AdmissionSafety ==
    (/\ result.op = "start_instance"
     /\ result.kind = "ok"
     /\ SumSlots(result.admitted) <= slots_per_node)
        => GetNode(result.node, daemon, cache, NoFault, now, "-").value.used
               <= slots_per_node

(* C2: capacity rejection.  When the slots of the live instances of the     *)
(* target node plus the requested slots (the default when unset) exceed      *)
(* slots_per_node, start_instance raises NodeOutOfCapacityException and      *)
(* issues no create_container and no start of a new container.               *)
C2_CapacityRejection ==
    (/\ result.op = "start_instance"
     /\ SumSlots(result.admitted) + result.slots > slots_per_node)
        => /\ result.kind = "raise"
           /\ result.exc = "NodeOutOfCapacityException"
           /\ \A i \in 1..Len(calls) :
                 /\ calls[i].op # "create_container"
                 /\ ~(calls[i].op = "start" /\ calls[i].arg = "bind")

(* C3: partial-failure aggregation.  get_instances never raises; a node    *)
(* whose failing call was issued is among the failed; and for every node the *)
(* result holds, in order and once each, the instances of the node when the  *)
(* node is asked and its pass did not fail, and nothing of it otherwise.     *)
C3_PartialFailure ==
    result.op = "get_instances" =>
        /\ result.kind = "ok"
        /\ \A i \in 1..Len(result.instances) : result.instances[i].node \in Nodes
        /\ \A n \in Nodes : FailedOn(n) => n \in result.failed
        /\ \A n \in Nodes :
              IdsOf(InstancesOn(result.instances, n)) =
                  IF n \in FilteredNodes(result.node_filter) \ result.failed
                  THEN LiveIds(daemon[n])
                  ELSE <<>>

\* a fleet-wide inventory in which one node failed and another gave instances
C3_Witness ==
    /\ result.op = "get_instances"
    /\ result.node_filter = NoFilter
    /\ \E n \in Nodes : FailedOn(n) /\ LiveIds(daemon[n]) # <<>>
    /\ result.instances # <<>>

(* C4: port filter.  Every instance an inventory returns comes from a       *)
(* listed container whose Status starts with "Up " and whose Ports is the    *)
(* one port 8080; an Up container with no port, several ports or another     *)
(* port is neither returned nor inspected.                                   *)
C4_Step ==
    result'.op \in Inventories =>
        /\ \A i \in 1..Len(result'.instances) :
              \E j \in 1..Len(daemon[result'.instances[i].node]) :
                  /\ DContainers(daemon[result'.instances[i].node])[j].Id
                         = result'.instances[i].id
                  /\ UpOn8080(DContainers(daemon[result'.instances[i].node])[j])
        /\ \A n \in Nodes : \A j \in 1..Len(daemon[n]) :
              (/\ Len(DContainers(daemon[n])[j].Status) >= 2
               /\ DContainers(daemon[n])[j].Status[1] = "Up"
               /\ ~UpOn8080(DContainers(daemon[n])[j]))
                  => /\ \A i \in 1..Len(result'.instances) :
                           result'.instances[i].id # daemon[n][j].Id
                     /\ daemon[n][j].Id \notin Asked(calls', n)
C4_PortFilter == [][C4_Step]_vars

\* a pass over n1 returned its instance and left the two-port registry aside
C4_Witness ==
    /\ result.op = "get_node_instances"
    /\ result.kind = "ok"
    /\ result.instances # <<>>
    /\ \E j \in 1..Len(daemon[result.node]) :
          /\ daemon[result.node][j].Status # <<>>
          /\ daemon[result.node][j].Status[1] = "Up"
          /\ Len(daemon[result.node][j].Exposed) = 2

(* C5 as the specification states it: in an inventory, for every container  *)
(* that is not Up and whose inspected FinishedAt is the zero time, start(id) *)
(* is issued and kill(id) is issued next on that node, no remove of it is    *)
(* issued, and it is not among the instances returned.                       *)
SentinelSeen(n) ==
    {pr \in lastPass[n].got :
        /\ pr[2] # "Up"
        /\ CacheKey(n, pr[1], pr[2]) \in DOMAIN cache
        /\ cache[CacheKey(n, pr[1], pr[2])].State.FinishedAt = ZeroTime}

StartThenKill(n, id, unless_raised) ==
    LET cl == CallsOn(calls, n)
        starts == Positions(cl, Call(n, "start", id, "-"))
    IN /\ starts # {}
       /\ \A i \in starts :
             \/ i < Len(cl) /\ cl[i + 1] = Call(n, "kill", id, "-")
             \/ unless_raised /\ i = Len(cl) /\ result.flt[n] = "start"
       /\ \A i \in 1..Len(cl) :
             ~(cl[i].op = "remove_container" /\ cl[i].id = id)
       /\ \A i \in 1..Len(result.instances) : result.instances[i].id # id

C6_Step ==
    (result'.op = "get_node_instances" /\ result'.flt = NoFault) =>
        \A j \in 1..Len(daemon[result'.node]) :
            (/\ ~(/\ Len(daemon[result'.node][j].Status) >= 2
                  /\ daemon[result'.node][j].Status[1] = "Up")
             /\ daemon[result'.node][j].FinishedAt # ZeroTime
             /\ daemon[result'.node][j].FinishedAt < now - docker_gc_grace_period)
                => /\ Cardinality(
                          {i \in 1..Len(calls') :
                              /\ calls'[i].op = "remove_container"
                              /\ calls'[i].id = daemon[result'.node][j].Id}) = 1
                   /\ \A i \in 1..Len(calls') :
                          calls'[i].op = "remove_container"
                              => calls'[i].node = result'.node
C6_GcThreshold == [][C6_Step]_vars

(* C7: stop of an unknown id.  stop_instance(id), for an id that is not a   *)
(* live instance of any node, returns false and issues no stop call and no   *)
(* remove_container(id, force=True) on any node.                             *)
C7_Step ==
    (/\ result'.op = "stop_instance"
     /\ \A n \in Nodes : \A j \in 1..Len(daemon[n]) :
            ~(LiveContainer(daemon[n][j]) /\ daemon[n][j].Id = result'.id))
        => /\ result'.kind = "ok"
           /\ result'.value = FALSE
           /\ \A i \in 1..Len(calls') :
                 /\ calls'[i].op # "stop"
                 /\ ~(calls'[i].op = "remove_container" /\ calls'[i].arg = "force")
C7_StopUnknown == [][C7_Step]_vars

\* stop_instance found instances, none with the id, and returned false
C7_Witness ==
    /\ result.op = "stop_instance"
    /\ result.value = FALSE
    /\ result.found # <<>>
    /\ \A i \in 1..Len(result.found) : result.found[i].id # result.id
    /\ \A n \in Nodes : \A j \in 1..Len(daemon[n]) :
          ~(LiveContainer(daemon[n][j]) /\ daemon[n][j].Id = result.id)

(* C8: remove failure tolerance.  When stop(id) has returned on the owning  *)
(* node and the remove_container(id, force=True) that follows raises,        *)
(* stop_instance returns true and raises nothing.                            *)
StopThenFailedRemove ==
    \E n \in Nodes : \E i \in 1..Len(calls) :
        /\ calls[i] = Call(n, "stop", result.id, "-")
        /\ result.flt[n] = "remove_container"

C8_RemoveFailureTolerated ==
    (result.op = "stop_instance" /\ StopThenFailedRemove)
        => /\ result.kind = "ok"
           /\ result.value = TRUE
           /\ \E n \in Nodes :
                 calls[Len(calls)] = Call(n, "remove_container", result.id, "force")

\* the stop went through, the remove raised, and the container is still there
C8_Witness ==
    /\ result.op = "stop_instance"
    /\ StopThenFailedRemove
    /\ result.value = TRUE
    /\ result.id \in AllIds(daemon)

(* C9 as the specification states it: of two consecutive passes over a node *)
(* whose daemon did not change in between, the second issues no              *)
(* inspect_container for a container the first one inspected.                *)
C9_Original_Step ==
    (result'.op = "get_node_instances" /\ lastPass[result'.node].fresh)
        => lastPass[result'.node].asked \cap Asked(calls', result'.node) = {}
C9_CacheCoherence == [][C9_Original_Step]_vars

\* the first part of a listed Status, the whole of an empty one
CoarseStatus(status) == IF status = <<>> THEN "" ELSE status[1]

(* C9, amended: of two consecutive passes over a node whose daemon did not  *)
(* change in between, the second issues no inspect_container for a container *)
(* whose inspection returned in the first pass and whose coarse status in    *)
(* the second listing is the one the first listing gave it (the cache being  *)
(* below its capacity).                                                      *)
C9_Step ==
    (result'.op = "get_node_instances" /\ lastPass[result'.node].fresh)
        => \A pr \in lastPass[result'.node].got :
              (\E j \in 1..Len(daemon[result'.node]) :
                  /\ daemon[result'.node][j].Id = pr[1]
                  /\ CoarseStatus(daemon[result'.node][j].Status) = pr[2])
                  => pr[1] \notin Asked(calls', result'.node)
C9_CacheCoherenceWhereReturned == [][C9_Step]_vars

\* a pass that got the details of its containers without asking the daemon
C9_Witness ==
    /\ result.op = "get_node_instances"
    /\ result.kind = "ok"
    /\ lastPass[result.node].got # {}
    /\ lastPass[result.node].asked = {}

(* C10: reserved env masking.  The environment of every instance that       *)
(* get_instances, get_node_instances or start_instance returns holds none of *)
(* HOME, PATH, SLUG_URL, PORT and holds every other key of the container's   *)
(* Env list with the value after the first "=".                              *)
ReservedNames == {<<"HOME">>, <<"PATH">>, <<"SLUG_URL">>, <<"PORT">>}

FirstEquals(item) ==
    CHOOSE p \in 1..Len(item) : item[p] = "=" /\ \A q \in 1..(p - 1) : item[q] # "="

Masked(environment, env) ==
    /\ DOMAIN environment \cap ReservedNames = {}
    /\ \A j \in 1..Len(env) :
          SubSeq(env[j], 1, FirstEquals(env[j]) - 1) \notin ReservedNames
              => /\ SubSeq(env[j], 1, FirstEquals(env[j]) - 1) \in DOMAIN environment
                 /\ environment[SubSeq(env[j], 1, FirstEquals(env[j]) - 1)]
                        = SubSeq(env[j], FirstEquals(env[j]) + 1, Len(env[j]))

C10_ReservedEnvMasked ==
    (result.op \in Inventories \cup {"start_instance"} /\ result.kind = "ok") =>
        \A i \in 1..Len(result.instances) :
            \E j \in 1..Len(daemon[result.instances[i].node]) :
                /\ daemon[result.instances[i].node][j].Id = result.instances[i].id
                /\ Masked(result.instances[i].environment,
                          daemon[result.instances[i].node][j].Env)

\* a started instance whose Env held reserved keys and a value with "=" in it
C10_Witness ==
    /\ result.op = "start_instance"
    /\ result.kind = "ok"
    /\ \E j \in 1..Len(daemon[result.node]) :
          /\ daemon[result.node][j].Id = result.instances[1].id
          /\ <<"PORT", "=", "8080">> \in Range(daemon[result.node][j].Env)
          /\ <<"JAVA_OPTS", "=", "-Xmx", "=", "1">> \in Range(daemon[result.node][j].Env)
    /\ DOMAIN result.instances[1].environment = {<<"JAVA_OPTS">>}

----------------------------------------------------------------------------
(* C11: name round-trip.  For any app name A passed to start_instance, the  *)
(* instance projected from the container it created (named A, "_", uuid)    *)
(* has app = A.                                                             *)
C11_NameRoundTrip ==
    result.op = "start_instance" /\ result.kind = "ok"
        => result.instances[1].app = result.app

----------------------------------------------------------------------------
(* C12: framed follow-mode logs.  For any sequence of frames (an 8-byte     *)
(* header carrying the big-endian length L, then L payload bytes) that the  *)
(* stream delivers in any chunking before it ends, get_logs(id, follow)     *)
(* yields exactly one record {msg: payload} per frame, in stream order,     *)
(* each payload being exactly its L bytes.                                  *)
C12_FramedLogs ==
    reader.state = "eof"
        => reader.out = [f \in 1..Len(reader.lens) |->
                            [msg |-> Payloads(reader.lens)[f]]]

----------------------------------------------------------------------------
(* C13: one-shot logs.  For a blob of k lines, each ended by "\n",          *)
(* get_logs(id) yields exactly k records, the i-th being                    *)
(* {msg: line_i + "\n"}, and the msgs joined give the blob back.            *)
C13_OneShotLogs ==
    result.op = "get_logs" /\ result.kind = "ok" /\ ~result.follow
        => /\ Len(result.records) = Len(result.lines)
           /\ \A i \in 1..Len(result.lines) :
                 result.records[i] = [msg |-> result.lines[i] \o <<"\n">>]
           /\ Flatten([i \in 1..Len(result.records) |-> result.records[i].msg])
                 = Blob(result.lines)

----------------------------------------------------------------------------
(* C14: get_node on an unreachable node.  For a configured node whose ping  *)
(* fails with a connection error or a timeout, get_node raises nothing and  *)
(* returns id = the name, total = used = free = 0 and a state that is the   *)
(* representation of the error, not "healthy".                              *)
PingFailedWith(name, kinds) ==
    /\ name \in Nodes
    /\ result.flt[name] = "ping"
    /\ result.raised \in kinds

C14_GetNodeUnreachable ==
    result.op = "get_node"
    /\ PingFailedWith(result.name, {"ConnectionError", "Timeout"})
        => /\ result.kind = "ok"
           /\ result.value.id = result.name
           /\ result.value.total = 0
           /\ result.value.used = 0
           /\ result.value.free = 0
           /\ result.value.state = IF result.raised = "Timeout" THEN "Timeout()"
                                   ELSE "ConnectionError()"
           /\ result.value.state # "healthy"
           /\ calls = <<Call(result.name, "ping", "-", "-")>>

\* the ping of a node that holds instances timed out
C14_Witness ==
    /\ result.op = "get_node"
    /\ PingFailedWith(result.name, {"Timeout"})
    /\ LiveIds(daemon[result.name]) # <<>>

----------------------------------------------------------------------------
(* C15: get_nodes completeness.  For every combination of per-node failures *)
(* (of any error kind) and every completion order, get_nodes() does not     *)
(* raise and returns exactly one entry per configured node, one for each    *)
(* failed node included.                                                    *)
C15_GetNodesComplete ==
    result.op = "get_nodes"
        => /\ result.kind = "ok"
           /\ Len(result.nodes) = Cardinality(Nodes)
           /\ \A n \in Nodes :
                 Cardinality({i \in 1..Len(result.nodes) : result.nodes[i].id = n}) = 1

----------------------------------------------------------------------------
(* C16: start_instance on an unknown node.  For every node name that is not *)
(* configured and every slots value, start_instance raises                  *)
(* NoSuchNodeException and issues no create_container on any node.          *)
C16_StartUnknownNode ==
    result.op = "start_instance" /\ result.node \notin Nodes
        => /\ result.kind = "raise"
           /\ result.exc = "NoSuchNodeException"
           /\ \A i \in 1..Len(calls) : calls[i].op # "create_container"

----------------------------------------------------------------------------
(* C17: get_node on an unknown name.  For a name that is not a configured   *)
(* node, get_node raises NoSuchNodeException before it issues any ping or   *)
(* listing call.                                                            *)
C17_GetNodeUnknown ==
    result.op = "get_node" /\ result.name \notin Nodes
        => /\ result.kind = "raise"
           /\ result.exc = "NoSuchNodeException"
           /\ calls = <<>>

\* asked for a node that is not configured while a configured one is down
C17_Witness ==
    /\ result.op = "get_node"
    /\ result.name \notin Nodes
    /\ \E n \in Nodes : result.flt[n] = "ping"

----------------------------------------------------------------------------
(* C18: get_logs on an unknown id.  For an id that is not the id of a live  *)
(* instance on any node, get_logs(id, follow) raises                        *)
(* NoSuchInstanceException, for follow true and false, and issues no logs   *)
(* call to any daemon.                                                      *)
LiveOnSomeNode(id) == \E n \in Nodes : id \in Range(LiveIds(daemon[n]))

C18_LogsUnknown ==
    result.op = "get_logs" /\ ~LiveOnSomeNode(result.id)
        => /\ result.kind = "raise"
           /\ result.exc = "NoSuchInstanceException"
           /\ \A i \in 1..Len(calls) : calls[i].op # "logs"

\* asked to follow the log of a container that is there but is no instance,
\* when both nodes gave their instances
C18_Witness ==
    /\ result.op = "get_logs"
    /\ result.follow
    /\ result.id \in AllIds(daemon)
    /\ ~LiveOnSomeNode(result.id)
    /\ Len(result.found) = 2

----------------------------------------------------------------------------
(* C19: reserved environment on creation.  For every environment a caller   *)
(* passes to start_instance, one holding PORT or SLUG_URL included, the     *)
(* environment passed to create_container has PORT = "8080", SLUG_URL = the *)
(* slug_uri argument, and every other key of the caller with its value.     *)
CreateIssued == \E i \in 1..Len(calls) : calls[i].op = "create_container"

C19_ReservedEnvOnCreate ==
    result.op = "start_instance" /\ CreateIssued
        => /\ result.environment["PORT"] = <<"8080">>
           /\ result.environment["SLUG_URL"] = result.req.slug_uri
           /\ DOMAIN result.environment
                 = DOMAIN result.req.environment \cup {"PORT", "SLUG_URL"}
           /\ \A k \in DOMAIN result.req.environment \ {"PORT", "SLUG_URL"} :
                 result.environment[k] = result.req.environment[k]
           /\ result.flt[result.node] # "create_container"
                 => \E c \in Range(daemon[result.node]) :
                       /\ c.Name = <<"/">> \o ContainerName(result.app, NewUuids[nextId])
                       /\ c.Env = EnvListFrom(result.environment, 1) \o ImageEnv

\* a container was created for a caller whose environment set PORT to
\* something else
C19_Witness ==
    /\ result.op = "start_instance"
    /\ CreateIssued
    /\ result.kind = "ok"
    /\ "PORT" \in DOMAIN result.req.environment
    /\ result.req.environment["PORT"] # <<"8080">>

----------------------------------------------------------------------------
(* C20: admission race.  Two start_instance calls that run concurrently     *)
(* against the same node can both pass the admission test, each on its own  *)
(* inventory, and both create and start a container, so that the slots in   *)
(* use on the node exceed slots_per_node: no per-node lock lies between the *)
(* inventory read and the create call.                                      *)

\* what get_node would now report as used
UsedSlots(n) ==
    SumSlots(GetInstances(<<n>>, daemon, cache, NoFault, now).instances)

\* the call got past line 136
Admitted(p) == starting[p].pc \in {"admitted", "created", "started", "done", "raised"}

\* a call goes on to create and start only when its own inventory, as it read
\* it, left room by the test of line 135, whatever the other call has done
\* to the node since; nothing makes it read the node again or wait
C20_AdmittedOnOwnInventory ==
    \A p \in Callers :
        /\ Admitted(p)
              => Len(starting[p].admitted) + starting[p].slots <= slots_per_node
        /\ starting[p].pc = "refused"
              => Len(starting[p].admitted) + starting[p].slots > slots_per_node
        /\ starting[p].pc \in {"created", "started", "done", "raised"}
              => \E c \in Range(daemon[starting[p].node]) :
                    c.Id = starting[p].id /\ c.CpuShares = starting[p].slots

\* both calls were admitted while the slots in use and the slots asked for
\* fitted the node, both containers run, and the node is over its capacity
C20_Witness ==
    \E n \in Nodes :
        /\ \A p \in Callers :
              /\ starting[p].pc = "done"
              /\ starting[p].node = n
              /\ SumSlots(starting[p].admitted) + starting[p].slots <= slots_per_node
              /\ \E c \in Range(daemon[n]) : c.Id = starting[p].id /\ Running(c)
              /\ \A q \in Callers : starting[q].id \notin Range(IdsOf(starting[p].admitted))
        /\ UsedSlots(n) > slots_per_node

(* C21: repair converges.  When a container has been repaired (it is listed  *)
(* as killed, "Exited (137)", and the daemon reports a real FinishedAt for   *)
(* it), the next inventory pass over its node issues no start and no kill    *)
(* for it.                                                                   *)
Repaired(c) == c.Status = StatusKilled /\ c.FinishedAt # ZeroTime

RepairCalls(cl, n, id) ==
    {i \in 1..Len(cl) : cl[i].node = n /\ cl[i].id = id /\ cl[i].op \in {"start", "kill"}}

C21_Step ==
    result'.op \in Inventories =>
        \A n \in result'.ran : \A j \in 1..Len(daemon[n]) :
            Repaired(daemon[n][j]) => RepairCalls(calls', n, daemon[n][j].Id) = {}
C21_RepairConverges == [][C21_Step]_vars

(* C23: repair failures are swallowed.  When the start or the kill of a      *)
(* repair raises in a get_node_instances pass, the pass does not raise and   *)
(* returns every Up port-8080 instance of the node that has a host port.     *)
RepairFailed(n) == result.flt[n] \in {"start", "kill"} /\ FailedOn(n)

C23_RepairFailureSwallowed ==
    (result.op = "get_node_instances" /\ RepairFailed(result.node))
        => /\ result.kind = "ok"
           /\ \A j \in 1..Len(daemon[result.node]) :
                 (/\ LiveContainer(daemon[result.node][j])
                  /\ daemon[result.node][j].HostPort # NoPort)
                     => \E i \in 1..Len(result.instances) :
                           result.instances[i].id = daemon[result.node][j].Id

(* C24: a malformed record is skipped.  When a node lists an Up port-8080    *)
(* container whose inspection record has no host port for 8080/tcp, a        *)
(* get_node_instances pass in which no daemon call fails does not raise and  *)
(* returns exactly the instances of the node's well-formed containers.       *)
Malformed(c) == LiveContainer(c) /\ c.HostPort = NoPort

WellFormedIds(dn) ==
    LET good == SelectSeq(dn, LAMBDA c : LiveContainer(c) /\ c.HostPort # NoPort)
    IN [i \in 1..Len(good) |-> good[i].Id]

C24_MalformedSkipped ==
    (/\ result.op = "get_node_instances"
     /\ ~FailedOn(result.node)
     /\ \E j \in 1..Len(daemon[result.node]) : Malformed(daemon[result.node][j]))
        => /\ result.kind = "ok"
           /\ IdsOf(result.instances) = WellFormedIds(daemon[result.node])

(* C25 as the specification states it: stop_instance(id), for an id that is  *)
(* a live instance of a node, issues stop(id) and then                       *)
(* remove_container(id, force=True), each once and in that order, on that    *)
(* node; no other node gets a stop or a remove for the id; and when stop(id) *)
(* raises, no remove is issued and stop_instance raises.                     *)
StopProtocol(cl, r, n) ==
    LET stops == Positions(cl, Call(n, "stop", r.id, "-"))
        removes == Positions(cl, Call(n, "remove_container", r.id, "force"))
    IN /\ Cardinality(stops) = 1
       /\ \A i \in 1..Len(cl) :
             (cl[i].id = r.id /\ cl[i].op \in {"stop", "remove_container"})
                 => i \in stops \cup removes
       /\ IF r.flt[n] = "stop"
          THEN removes = {} /\ r.kind = "raise"
          ELSE /\ Cardinality(removes) = 1
               /\ \A s \in stops : \A m \in removes : s < m
               /\ r.kind = "ok"
               /\ r.value = TRUE

LiveOn(dmn, n, id) ==
    \E j \in 1..Len(dmn[n]) : LiveContainer(dmn[n][j]) /\ dmn[n][j].Id = id

C25_Original_Step ==
    result'.op = "stop_instance" =>
        \A n \in Nodes :
            LiveOn(daemon, n, result'.id) => StopProtocol(calls', result', n)
C25_StopProtocol == [][C25_Original_Step]_vars

(* C25, amended: stop_instance(id), for an id that is a live instance of a   *)
(* node whose inventory pass in this call did not fail, issues stop(id) and  *)
(* then remove_container(id, force=True), each once and in that order, on    *)
(* that node; no other node gets a stop or a remove for the id; and when     *)
(* stop(id) raises, no remove is issued and stop_instance raises.            *)
C25_Step ==
    result'.op = "stop_instance" =>
        \A n \in Nodes \ result'.failed :
            LiveOn(daemon, n, result'.id) => StopProtocol(calls', result', n)
C25_StopProtocolWhereLocated == [][C25_Step]_vars

\* a live instance was stopped and removed, and its container is gone
C25_Witness ==
    /\ result.op = "stop_instance"
    /\ result.value = TRUE
    /\ \E n \in Nodes :
          /\ Positions(calls, Call(n, "stop", result.id, "-")) # {}
          /\ Positions(calls, Call(n, "remove_container", result.id, "force")) # {}
    /\ result.id \notin AllIds(daemon)

(* C26: start protocol.  A start_instance that is admitted on a node it      *)
(* knows issues for the new container, on that node and in this order,       *)
(* create_container, start with the port binding and inspect_container,      *)
(* stopping at the first of them that raises; the inspect is a call to the   *)
(* daemon and the cache holds no record of the new container; what is        *)
(* returned is the projection of the record the daemon holds after the       *)
(* start; and no create_container and no binding start goes anywhere else.   *)
AdmittedStart(r) ==
    /\ r.op = "start_instance"
    /\ r.node \in Nodes
    /\ r.exc # "NodeOutOfCapacityException"

StartCalls(node, id) ==
    << Call(node, "create_container", id, "-"),
       Call(node, "start", id, "bind"),
       Call(node, "inspect_container", id, "-") >>

C26_Step ==
    AdmittedStart(result') =>
        \E id \in {NewIds[nextId + 1]} :
        \E mine \in {SelectSeq(calls', LAMBDA c :
                        \/ c.id = id
                        \/ c.op = "create_container"
                        \/ (c.op = "start" /\ c.arg = "bind"))} :
            /\ Len(mine) \in 1..3
            /\ mine = SubSeq(StartCalls(result'.node, id), 1, Len(mine))
            /\ result'.kind = "raise" => result'.flt[result'.node] = mine[Len(mine)].op
            /\ result'.kind = "ok" =>
                  /\ Len(mine) = 3
                  /\ result'.instances =
                        <<GetInstance(result'.node, DInspect(daemon'[result'.node], id))>>
            /\ \A key \in DOMAIN cache' : key[2] # id
C26_StartProtocol == [][C26_Step]_vars

\* a start went through after an inventory that asked the daemon itself
C26_Witness ==
    /\ AdmittedStart(result)
    /\ result.kind = "ok"
    /\ Len(calls) > 3
    /\ Asked(calls, result.node) \ {result.instances[1].id} # {}
    /\ result.instances[1].port > 0

(* C22: cache validity across status transitions.  In an inventory pass over *)
(* a node, a container whose record the pass uses and whose coarse status in *)
(* this listing differs from the coarse status the previous pass over the    *)
(* node saw for it is inspected at the daemon in this pass.                  *)
C22_Step ==
    result'.op \in Inventories =>
        \A n \in result'.ran \ result'.failed :
        \A j \in 1..Len(daemon[n]) : \A pr \in lastPass[n].got :
            (/\ pr[1] = daemon[n][j].Id
             /\ pr[2] # CoarseStatus(daemon[n][j].Status)
             /\ <<pr[1], CoarseStatus(daemon[n][j].Status)>> \in lastPass'[n].got)
                => pr[1] \in Asked(calls', n)
C22_CacheValidAcrossTransitions == [][C22_Step]_vars

(* C27: within-node order.  In the result of get_instances the instances of  *)
(* a node stand in the order of the node's listing, and next to each other:  *)
(* between two instances of one node there is no instance of another.        *)
ListedIds(dn) == [j \in 1..Len(dn) |-> dn[j].Id]

C27_WithinNodeOrder ==
    result.op = "get_instances" =>
        /\ \A n \in Nodes :
              \E ids \in {IdsOf(InstancesOn(result.instances, n))} :
                 ids = SelectSeq(ListedIds(daemon[n]), LAMBDA id : id \in Range(ids))
        /\ \A i, k \in 1..Len(result.instances) :
              (i < k /\ result.instances[i].node = result.instances[k].node)
                  => \A j \in i..k : result.instances[j].node = result.instances[i].node

\* two nodes returned instances, one of them more than one
C27_Witness ==
    /\ result.op = "get_instances"
    /\ \E n \in Nodes : Len(InstancesOn(result.instances, n)) >= 2
    /\ \A n \in Nodes : InstancesOn(result.instances, n) # <<>>
    /\ result.instances[1].node = "n2"

(* C29: no premature collection.  An inventory pass issues                   *)
(* remove_container(id) only for a container that is not running and whose   *)
(* FinishedAt, as the daemon reports it when the pass begins, is more than   *)
(* docker_gc_grace_period before now.                                        *)
C29_Step ==
    result'.op \in Inventories =>
        \A i \in 1..Len(calls') :
            calls'[i].op = "remove_container" =>
                \E j \in 1..Len(daemon[calls'[i].node]) :
                    /\ daemon[calls'[i].node][j].Id = calls'[i].id
                    /\ ~Running(daemon[calls'[i].node][j])
                    /\ PastGrace(now, daemon[calls'[i].node][j].FinishedAt)
C29_NoPrematureGc == [][C29_Step]_vars

(* C28: end of the stream inside a frame.  When the response ends inside the *)
(* header or the payload of its last frame, the follow-mode decoder ends     *)
(* without a record for that frame, and every record it gave is the whole    *)
(* payload of a frame that came whole, in the order of the stream.           *)
C28_EofInsideFrame ==
    reader.cut > 0
        => /\ Len(reader.out) < Len(reader.lens)
           /\ \A i \in 1..Len(reader.out) :
                 reader.out[i] = [msg |-> Payloads(reader.lens)[i]]

\* the decoder ended with records given and part of a payload in its buffer
C28_Witness ==
    /\ reader.state = "eof"
    /\ reader.cut > 0
    /\ reader.out # <<>>
    /\ Len(reader.data_buffer) > HeaderLen

(* C30: orphans are collected.  A container that a start_instance created    *)
(* and could not start is repaired by a later inventory pass over its node   *)
(* (its FinishedAt stops being the sentinel), and once its FinishedAt is     *)
(* more than docker_gc_grace_period in the past a later pass removes it,     *)
(* when no daemon call fails and the node is inventoried infinitely often.   *)
Orphan(n, id) ==
    \E j \in 1..Len(daemon[n]) :
        daemon[n][j].Id = id /\ ~Running(daemon[n][j])

OrphanSentinel(n, id) ==
    \E j \in 1..Len(daemon[n]) :
        /\ daemon[n][j].Id = id
        /\ ~Running(daemon[n][j])
        /\ daemon[n][j].FinishedAt = ZeroTime

OrphanDue(n, id) ==
    \E j \in 1..Len(daemon[n]) :
        /\ daemon[n][j].Id = id
        /\ ~Running(daemon[n][j])
        /\ daemon[n][j].FinishedAt # ZeroTime
        /\ PastGrace(now, daemon[n][j].FinishedAt)

C30_OrphansCollected ==
    \A n \in Nodes : \A id \in {NewIds[i] : i \in 1..MaxCreated} :
        /\ OrphanSentinel(n, id) ~> ~OrphanSentinel(n, id)
        /\ OrphanDue(n, id) ~> ~Orphan(n, id)

\* a container was created, and the inventories have removed it
C30_Witness ==
    /\ nextId > 0
    /\ \E i \in 1..nextId : NewIds[i] \notin AllIds(daemon)
    /\ result.op = "get_node_instances"
    /\ \E i \in 1..Len(calls) :
          calls[i].op = "remove_container" /\ calls[i].id \in Range(NewIds)

(* C31: healthy means accurate.  When get_node(name) returns the state       *)
(* "healthy", total is slots_per_node, free is total - used, and used is the *)
(* sum of the slots of the Up port-8080 containers the node's daemon lists.  *)
LiveSlots(dn) ==
    LET live == SelectSeq(dn, LiveContainer)
    IN SeqSum([i \in 1..Len(live) |-> live[i].CpuShares])

C31_HealthyMeansAccurate ==
    (/\ result.op = "get_node"
     /\ result.kind = "ok"
     /\ result.value.state = "healthy")
        => /\ result.value.total = slots_per_node
           /\ result.value.free = result.value.total - result.value.used
           /\ result.value.used = LiveSlots(daemon[result.name])

(* C32: no admission on a failed inventory.  When a call of the inventory    *)
(* that start_instance takes of its target node raises, start_instance       *)
(* issues no create_container and raises.                                    *)
InventoryFailed(r, cl) ==
    /\ r.node \in Nodes
    /\ r.flt[r.node] # "none"
    /\ \E i \in 1..Len(cl) :
          /\ cl[i].node = r.node
          /\ cl[i].op = r.flt[r.node]
          /\ cl[i].op # "create_container"
          /\ cl[i].id \notin Range(NewIds)

C32_NoAdmissionOnFailedInventory ==
    (result.op = "start_instance" /\ InventoryFailed(result, calls))
        => /\ result.kind = "raise"
           /\ \A i \in 1..Len(calls) : calls[i].op # "create_container"

====
